---- MODULE Spec2Model ----
(***************************************************************************)
(* Model of refactor_icons.py: a one-shot rewriter that walks ui/src,      *)
(* finds bulk imports from '@tabler/icons-react' in .ts/.tsx files and     *)
(* replaces each by one default import per symbol.                         *)
(*                                                                         *)
(* Text is a sequence of one-character strings; offsets are 0-based and    *)
(* spans are half-open, as in Python.                                      *)
(***************************************************************************)
EXTENDS Integers, Sequences, FiniteSets, TLC

\* ------------------------------------------------------------------------
\* Bounds of the model
\* ------------------------------------------------------------------------
MaxFiles == 3

MaxSyms == 2

MaxRuns == 2

\* ------------------------------------------------------------------------
\* Literals of the program
\* ------------------------------------------------------------------------
KwImport == <<"i", "m", "p", "o", "r", "t">>

KwFrom == <<"f", "r", "o", "m">>

Package == <<"@", "t", "a", "b", "l", "e", "r", "/", "i", "c", "o", "n", "s", "-", "r", "e", "a", "c", "t">>

AsSep == <<" ", "a", "s", " ">>

LineHead == <<"i", "m", "p", "o", "r", "t", " ">>

LineFrom == <<" ", "f", "r", "o", "m", " ", "'", "@", "t", "a", "b", "l", "e", "r", "/", "i", "c", "o", "n", "s", "-", "r", "e", "a", "c", "t">>

LineTail == <<".", "m", "j", "s", "'", ";">>

ExtTsx == <<".", "t", "s", "x">>

ExtTs == <<".", "t", "s">>

\* ------------------------------------------------------------------------
\* str primitives
\* ------------------------------------------------------------------------
\* the characters \s and str.strip() treat as whitespace (ASCII part)
IsSpace(c) == c \in {" ", "\t", "\n", "\r", "\f"}

\* s[a:b]
Slice(s, a, b) == SubSeq(s, a + 1, b)

\* s.startswith(lit, p)
HasAt(s, p, lit) == p + Len(lit) <= Len(s) /\ \A k \in 1..Len(lit) : s[p + k] = lit[k]

\* s.endswith(suffix)
EndsWith(s, suffix) == Len(suffix) <= Len(s) /\ HasAt(s, Len(s) - Len(suffix), suffix)

\* the least element of a non-empty set of offsets
Least(S) == CHOOSE x \in S : \A y \in S : x <= y

\* s.find(sep, p): offset of the first occurrence at or after p, -1 if none
Find(s, sep, p) ==
    LET hits == {q \in p..(Len(s) - Len(sep)) : HasAt(s, q, sep)}
    IN  IF hits = {} THEN -1 ELSE Least(hits)

RECURSIVE Split(_, _)
\* s.split(sep): every non-overlapping occurrence, left to right
Split(s, sep) ==
    LET p == Find(s, sep, 0)
    IN  IF p < 0 THEN <<s>>
        ELSE <<Slice(s, 0, p)>> \o Split(Slice(s, p + Len(sep), Len(s)), sep)

RECURSIVE LStrip(_)
LStrip(s) == IF s # <<>> /\ IsSpace(Head(s)) THEN LStrip(Tail(s)) ELSE s

RECURSIVE RStrip(_)
RStrip(s) == IF s # <<>> /\ IsSpace(s[Len(s)]) THEN RStrip(Slice(s, 0, Len(s) - 1)) ELSE s

\* s.strip()
Strip(s) == RStrip(LStrip(s))

RECURSIVE Join(_, _)
\* sep.join(parts)
Join(parts, sep) ==
    IF parts = <<>> THEN <<>>
    ELSE IF Len(parts) = 1 THEN parts[1]
    ELSE parts[1] \o sep \o Join(Tail(parts), sep)

\* the list in its own order, as a loop over matches would take it
ForwardOrder(xs) == xs

\* list(reversed(xs))
Reversed(xs) == [k \in 1..Len(xs) |-> xs[Len(xs) + 1 - k]]

\* ------------------------------------------------------------------------
\* The pattern
\*   import\s+\{([^}]+)\}\s+from\s+['"]@tabler/icons-react['"];?
\* Every quantified class is disjoint from the token that follows it, so the
\* greedy scan below is the only way the pattern can match at an offset.
\* ------------------------------------------------------------------------
\* a class that leaves the double quote out
IsSingleQuote(c) == c = "'"

\* ['"]
IsQuote(c) == c \in {"'", "\""}

RECURSIVE SkipSpace(_, _)
\* offset after the longest run of \s starting at p
SkipSpace(s, p) == IF p < Len(s) /\ IsSpace(s[p + 1]) THEN SkipSpace(s, p + 1) ELSE p

\* offset after the longest run of [^}] starting at p
SkipBlock(s, p) == Least({q \in p..(Len(s) - 1) : s[q + 1] = "}"} \cup {Len(s)})

\* ;? : offset after the optional semicolon at p
SkipSemi(s, p) == IF HasAt(s, p, <<";">>) THEN p + 1 ELSE p

NoMatch == [start |-> -1, end |-> -1, group1 |-> <<>>]

\* pattern.match(s, p): the match object (start, end, group(1)) or NoMatch
MatchAt(s, p) ==
    LET a == p + Len(KwImport)
        b == SkipSpace(s, a)
        c == b + 1
        d == SkipBlock(s, c)
        e == d + 1
        f == SkipSpace(s, e)
        g == f + Len(KwFrom)
        h == SkipSpace(s, g)
        i == h + 1
        j == i + Len(Package)
        k == j + 1
    IN  IF /\ HasAt(s, p, KwImport)
           /\ b > a
           /\ HasAt(s, b, <<"{">>)
           /\ d > c
           /\ HasAt(s, d, <<"}">>)
           /\ f > e
           /\ HasAt(s, f, KwFrom)
           /\ h > g
           /\ h < Len(s)
           /\ IsQuote(s[h + 1])
           /\ HasAt(s, i, Package)
           /\ j < Len(s)
           /\ IsQuote(s[j + 1])
        THEN [start |-> p, end |-> SkipSemi(s, k), group1 |-> Slice(s, c, d)]
        ELSE NoMatch

RECURSIVE FindFrom(_, _)
\* the matches of pattern.finditer at or after p: leftmost, non-overlapping
FindFrom(s, p) ==
    LET hits == {q \in p..(Len(s) - 1) : MatchAt(s, q).start >= 0}
    IN  IF hits = {} THEN <<>>
        ELSE LET m == MatchAt(s, Least(hits))
             IN  <<m>> \o FindFrom(s, m.end)

\* list(pattern.finditer(content))
FindAll(s) == FindFrom(s, 0)

\* ------------------------------------------------------------------------
\* The body of the loop over the matches
\* ------------------------------------------------------------------------
\* [i.strip() for i in icons_block.split(',')]
StripAll(parts) == [k \in 1..Len(parts) |-> Strip(parts[k])]

\* no filtering of the empty entries
KeepEmpty(icons) == icons

RECURSIVE DropEmpty(_)
\* [i for i in icons if i]
DropEmpty(icons) ==
    IF icons = <<>> THEN <<>>
    ELSE IF Head(icons) = <<>> THEN DropEmpty(Tail(icons))
    ELSE <<Head(icons)>> \o DropEmpty(Tail(icons))

IconsOf(icons_block) == DropEmpty(StripAll(Split(icons_block, <<",">>)))

\* ' as ' in icon
HasAlias(icon) == Find(icon, AsSep, 0) >= 0

\* orig, alias = icon.split(' as ') raises ValueError unless there are two parts
UnpackFails(icon) == HasAlias(icon) /\ Len(Split(icon, AsSep)) # 2

Raises(icons) == \E k \in 1..Len(icons) : UnpackFails(icons[k])

\* f"import {alias} from '@tabler/icons-react{orig}.mjs';"
ImportLine(alias, orig) == LineHead \o alias \o LineFrom \o orig \o LineTail

\* the line appended for one icon
LineOf(icon) ==
    IF HasAlias(icon)
    THEN LET parts == Split(icon, AsSep)
         IN  ImportLine(Strip(parts[2]), Strip(parts[1]))
    ELSE ImportLine(icon, icon)

\* the list replacement after the inner loop
Replacement(icons) == [k \in 1..Len(icons) |-> LineOf(icons[k])]

\* new_content[:match.start()] + "\n".join(replacement) + new_content[match.end():]
Spliced(text, m, lines) ==
    Slice(text, 0, m.start) \o Join(lines, <<"\n">>) \o Slice(text, m.end, Len(text))

\* only the first of the two extensions
WantedTsOnly(file) == EndsWith(file, ExtTs)

\* file.endswith('.tsx') or file.endswith('.ts')
Wanted(file) == EndsWith(file, ExtTsx) \/ EndsWith(file, ExtTs)

\* ------------------------------------------------------------------------
\* Inputs: the file trees a run may start from
\* ------------------------------------------------------------------------
IconHome == <<"I", "c", "o", "n", "H", "o", "m", "e">>

IconUser == <<"I", "c", "o", "n", "U", "s", "e", "r">>

UserIcon == <<"U", "s", "e", "r", "I", "c", "o", "n">>

\* an entry of a symbol list: a name, a rename, nothing (as between two
\* commas) or a rename of a rename
PieceKinds == {"plain", "alias", "empty", "double"}

PieceText(kind) ==
    CASE kind = "plain" -> IconHome
      [] kind = "alias" -> IconUser \o AsSep \o UserIcon
      [] kind = "empty" -> <<>>
      [] kind = "double" -> IconUser \o AsSep \o UserIcon \o AsSep \o IconHome

\* symbol lists of 1..MaxSyms entries
Lists == UNION {[1..n -> PieceKinds] : n \in 1..MaxSyms}

\* quote character, trailing semicolon, one line or one symbol per line
Styles == [quote : {"'", "\""}, semi : BOOLEAN, multi : BOOLEAN]

PlainStyle == [quote |-> "'", semi |-> TRUE, multi |-> FALSE]

ListText(list, multi) ==
    IF multi
    THEN <<"\n">> \o Join([k \in 1..Len(list) |-> <<" ", " ">> \o PieceText(list[k])], <<",", "\n">>) \o <<"\n">>
    ELSE <<" ">> \o Join([k \in 1..Len(list) |-> PieceText(list[k])], <<",", " ">>) \o <<" ">>

\* the text of a bulk import statement
Stmt(list, st) ==
    KwImport \o <<" ", "{">> \o ListText(list, st.multi) \o <<"}", " ">> \o KwFrom
        \o <<" ", st.quote>> \o Package \o <<st.quote>> \o (IF st.semi THEN <<";">> ELSE <<>>)

Pad == <<"/", "/", "\n">>

FromClause == <<"}", " ">> \o KwFrom \o <<" ", "'">> \o Package \o <<"'", ";">>

\* text put before and after a statement
Frames ==
    { [pre |-> Pad, post |-> Pad],
      [pre |-> KwImport \o <<" ", "{">>, post |-> FromClause],
      [pre |-> <<"i", "m">>, post |-> <<"p", "o", "r", "t", " ", "{">> \o IconHome \o FromClause] }

\* texts without a bulk import: empty, a comment, empty braces, no closing brace
PlainTexts ==
    { <<>>,
      Pad,
      KwImport \o <<" ", "{">> \o FromClause,
      KwImport \o <<" ", "{", " ">> \o IconHome \o <<" ">> \o KwFrom \o <<" ", "'">> \o Package \o <<"'", ";">> }

OneStmtTexts == {Stmt(l, st) : l \in Lists, st \in Styles}

FramedTexts == {f.pre \o Stmt(l, PlainStyle) \o f.post : l \in Lists, f \in Frames}

TwoStmtTexts ==
    {Pad \o Stmt(l, PlainStyle) \o Pad \o Stmt(<<k>>, PlainStyle) \o Pad : l \in Lists, k \in PieceKinds}

Texts == PlainTexts \cup OneStmtTexts \cup FramedTexts \cup TwoStmtTexts

FileNames ==
    { <<"a", ".", "t", "s">>,
      <<"b", ".", "t", "s", "x">>,
      <<"c", ".", "t", "s", "x", ".", "b", "a", "k">> }

\* the texts used in trees of several files: one without a bulk import, one
\* that is rewritten
FewTexts == {Pad, Stmt(<<"plain">>, PlainStyle)}

\* the one file a.ts with any text, or up to MaxFiles files in walk order
Trees ==
    {[names |-> <<<<"a", ".", "t", "s">>>>, texts |-> <<t>>] : t \in Texts}
    \cup UNION {[names : [1..n -> FileNames], texts : [1..n -> FewTexts]] : n \in 0..MaxFiles}

\* ------------------------------------------------------------------------
\* State
\* ------------------------------------------------------------------------
VARIABLES
    tree,         \* the file names os.walk yields, in walk order
    fs,           \* fs[i]: the text of file i on disk
    fs0,          \* fs at the start of the current run
    run,          \* number of the current run of the script
    prev,         \* the files the previous run overwrote
    pc,           \* "walk", "loop", "done" or "crashed"
    idx,          \* the file the walk is at
    content,      \* refactor_icons: content
    new_content,  \* refactor_icons: new_content
    matches,      \* refactor_icons: matches
    todo,         \* what is left of reversed(matches)
    count,        \* count
    out,          \* the lines printed
    log,          \* the file operations of the current run, in order
    err           \* the exception that ended the run, or "none"

vars == <<tree, fs, fs0, run, prev, pc, idx, content, new_content, matches, todo, count, out, log, err>>

locals == <<content, new_content, matches, todo>>

Init ==
    /\ \E t \in Trees : tree = t.names /\ fs = t.texts /\ fs0 = t.texts
    /\ run = 1
    /\ prev = {}
    /\ pc = "walk"
    /\ idx = 1
    /\ content = <<>>
    /\ new_content = <<>>
    /\ matches = <<>>
    /\ todo = <<>>
    /\ count = 0
    /\ out = <<>>
    /\ log = <<>>
    /\ err = "none"

\* ------------------------------------------------------------------------
\* The driver loop and refactor_icons
\* ------------------------------------------------------------------------
Event(op, i) == [op |-> op, path |-> i]

\* the print without its condition
OutAlways(changed, lines, i) == Append(lines, [kind |-> "Refactored", arg |-> i])

\* if refactor_icons(path): print(f"Refactored {path}")
OutAfter(changed, lines, i) ==
    IF changed THEN Append(lines, [kind |-> "Refactored", arg |-> i]) ELSE lines

\* if refactor_icons(path): count += 1
CountAfter(changed, n) == IF changed THEN n + 1 ELSE n

\* back in the driver with the value refactor_icons returned
Return(changed) ==
    /\ out' = OutAfter(changed, out, idx)
    /\ count' = CountAfter(changed, count)
    /\ idx' = idx + 1
    /\ pc' = "walk"

\* an exception nothing catches ends the process
Raise(e) ==
    /\ err' = e
    /\ pc' = "crashed"
    /\ UNCHANGED <<idx, count, out>>

AtFile == pc = "walk" /\ idx <= Len(tree)

\* a file with another extension is passed over
SkipFile ==
    /\ AtFile
    /\ ~Wanted(tree[idx])
    /\ idx' = idx + 1
    /\ UNCHANGED <<tree, fs, fs0, run, prev, pc, locals, count, out, log, err>>

\* refactor_icons up to the loop: read the file, find the matches, return
\* False when there is none
ReadFile ==
    /\ AtFile
    /\ Wanted(tree[idx])
    /\ log' = Append(log, Event("read", idx))
    /\ content' = fs[idx]
    /\ new_content' = fs[idx]
    /\ matches' = FindAll(fs[idx])
    /\ IF matches' = <<>>
       THEN /\ todo' = <<>>
            /\ Return(FALSE)
       ELSE /\ todo' = Reversed(matches')
            /\ pc' = "loop"
            /\ UNCHANGED <<idx, count, out>>
    /\ UNCHANGED <<tree, fs, fs0, run, prev, err>>

\* a read error that is swallowed and the walk goes on
ReadFailIgnored ==
    /\ AtFile
    /\ Wanted(tree[idx])
    /\ log' = Append(log, Event("readfail", idx))
    /\ idx' = idx + 1
    /\ UNCHANGED <<tree, fs, fs0, run, prev, pc, locals, count, out, err>>

\* open() or read() raises
ReadFail ==
    /\ AtFile
    /\ Wanted(tree[idx])
    /\ log' = Append(log, Event("readfail", idx))
    /\ Raise("OSError")
    /\ UNCHANGED <<tree, fs, fs0, run, prev, locals>>

\* one iteration of the loop over reversed(matches)
Splice ==
    /\ pc = "loop"
    /\ todo # <<>>
    /\ LET icons == IconsOf(Head(todo).group1)
       IN  /\ ~Raises(icons)
           /\ new_content' = Spliced(new_content, Head(todo), Replacement(icons))
    /\ todo' = Tail(todo)
    /\ UNCHANGED <<tree, fs, fs0, run, prev, pc, idx, content, matches, count, out, log, err>>

\* the iteration in which the unpacking of icon.split(' as ') raises
SpliceRaise ==
    /\ pc = "loop"
    /\ todo # <<>>
    /\ Raises(IconsOf(Head(todo).group1))
    /\ Raise("ValueError")
    /\ UNCHANGED <<tree, fs, fs0, run, prev, locals, log>>

\* after the loop: write the file when the text changed, and return
WriteBack ==
    /\ pc = "loop"
    /\ todo = <<>>
    /\ IF new_content # content
       THEN /\ fs' = [fs EXCEPT ![idx] = new_content]
            /\ log' = Append(log, Event("write", idx))
            /\ Return(TRUE)
       ELSE /\ UNCHANGED <<fs, log>>
            /\ Return(FALSE)
    /\ UNCHANGED <<tree, fs0, run, prev, locals, err>>

\* open(file_path, 'w') or write() raises: the file is as it was, or was
\* truncated and holds the part of new_content that reached the disk
WriteFail ==
    /\ pc = "loop"
    /\ todo = <<>>
    /\ new_content # content
    /\ \E t \in {content} \cup {Slice(new_content, 0, n) : n \in 0..Len(new_content)} :
           fs' = [fs EXCEPT ![idx] = t]
    /\ log' = Append(log, Event("writefail", idx))
    /\ Raise("OSError")
    /\ UNCHANGED <<tree, fs0, run, prev, locals>>

\* print(f"Total refactored: {count}") once the walk is over
Summary ==
    /\ pc = "walk"
    /\ idx > Len(tree)
    /\ out' = Append(out, [kind |-> "Total", arg |-> count])
    /\ pc' = "done"
    /\ UNCHANGED <<tree, fs, fs0, run, prev, idx, locals, count, log, err>>

\* the script is run again on the tree the last run left
Rerun ==
    /\ pc = "done"
    /\ run < MaxRuns
    /\ run' = run + 1
    /\ fs0' = fs
    /\ prev' = {log[k].path : k \in {j \in 1..Len(log) : log[j].op = "write"}}
    /\ pc' = "walk"
    /\ idx' = 1
    /\ count' = 0
    /\ out' = <<>>
    /\ log' = <<>>
    /\ content' = <<>>
    /\ new_content' = <<>>
    /\ matches' = <<>>
    /\ todo' = <<>>
    /\ UNCHANGED <<tree, fs, err>>

Next ==
    \/ SkipFile
    \/ ReadFile
    \/ ReadFail
    \/ Splice
    \/ SpliceRaise
    \/ WriteBack
    \/ WriteFail
    \/ Summary
    \/ Rerun

Spec == Init /\ [][Next]_vars

TypeOK ==
    /\ pc \in {"walk", "loop", "done", "crashed"}
    /\ idx \in 1..(Len(tree) + 1)
    /\ count \in 0..Len(tree)
    /\ run \in 1..MaxRuns
    /\ err \in {"none", "OSError", "ValueError"}

\* ------------------------------------------------------------------------
\* Helpers of the properties
\* ------------------------------------------------------------------------
\* the positions of log that hold an operation of ops on file i
Ops(ops, i) == {k \in 1..Len(log) : log[k].op \in ops /\ log[k].path = i}

Written(i) == Ops({"write"}, i) # {}

Refactored(i) == \E k \in 1..Len(out) : out[k] = [kind |-> "Refactored", arg |-> i]

\* the matches already spliced: those of matches no longer in todo
Applied == {k \in 1..Len(matches) : k > Len(todo)}

\* the trimmed, non-empty entries of a symbol list
Entries(block) == SelectSeq(StripAll(Split(block, <<",">>)), LAMBDA x : x # <<>>)

\* the text that replaces match m
Block(m) == Join(Replacement(Entries(m.group1)), <<"\n">>)

RECURSIVE ForwardFrom(_, _, _, _)
\* text from offset pos on, with the matches ms[k..] replaced left to right
ForwardFrom(text, ms, k, pos) ==
    IF k > Len(ms) THEN Slice(text, pos, Len(text))
    ELSE Slice(text, pos, ms[k].start) \o Block(ms[k]) \o ForwardFrom(text, ms, k + 1, ms[k].end)

\* ------------------------------------------------------------------------
\* C1
\* ------------------------------------------------------------------------
WantLine(binding, name) ==
    <<"i", "m", "p", "o", "r", "t", " ">> \o binding \o <<" ", "f", "r", "o", "m", " ", "'">>
        \o Package \o <<"/">> \o name \o <<".", "m", "j", "s", "'", ";">>

\* C1: a text with exactly one bulk import whose symbol list is `A, B as C`
\* is rewritten to the same text with that statement replaced by
\* `import A from '<package>/A.mjs';` and, on the next line,
\* `import C from '<package>/B.mjs';`.
C1_BulkImportRewritten ==
    ( /\ pc = "loop"
      /\ todo = <<>>
      /\ Len(matches) = 1
      /\ Entries(matches[1].group1) = <<IconHome, IconUser \o AsSep \o UserIcon>> )
    => new_content =
           Slice(content, 0, matches[1].start)
               \o WantLine(IconHome, IconHome) \o <<"\n">> \o WantLine(UserIcon, IconUser)
               \o Slice(content, matches[1].end, Len(content))

\* ------------------------------------------------------------------------
\* C2
\* ------------------------------------------------------------------------
\* C2: while the matches are applied, the text up to the end of the last
\* match not yet applied is the original text, and what follows is the
\* original with every applied match replaced by its own block; once all
\* are applied, the text is the original with each span replaced by its
\* block and everything else kept.
C2_OffsetSafety ==
    pc = "loop" =>
        LET n == Len(todo)
            b == IF n = 0 THEN 0 ELSE matches[n].end
        IN  /\ \A k \in 1..n : todo[k] = matches[n + 1 - k]
            /\ new_content = Slice(content, 0, b) \o ForwardFrom(content, matches, n + 1, b)

C2_Witness ==
    /\ pc = "loop"
    /\ Len(matches) >= 2
    /\ todo = <<>>
    /\ \E k \in 1..Len(matches) : Len(Block(matches[k])) # matches[k].end - matches[k].start

\* ------------------------------------------------------------------------
\* C3
\* ------------------------------------------------------------------------
\* C3: a run on the files the previous run rewrote finds no bulk import in
\* them and does not write them again.
C3_SecondRunFindsNothing ==
    \A i \in prev : ~(pc = "loop" /\ idx = i) /\ ~Written(i)

\* ------------------------------------------------------------------------
\* C4
\* ------------------------------------------------------------------------
\* the pattern matches at some offset of text
HasBulkImport(text) == \E q \in 0..(Len(text) - 1) : MatchAt(text, q).start >= 0

\* C4: a file without a bulk import keeps its text, is never opened for
\* writing, gets no Refactored line, and the counter counts only the files
\* that were overwritten.
C4_NoMatchUntouched ==
    /\ \A i \in 1..Len(tree) :
           \/ /\ fs[i] = fs0[i]
              /\ Ops({"write", "writefail"}, i) = {}
              /\ ~Refactored(i)
           \/ HasBulkImport(fs0[i])
    /\ count = Cardinality({k \in 1..Len(log) : log[k].op = "write"})
    /\ Cardinality({k \in 1..Len(out) : out[k].kind = "Refactored"}) <= count

C4_Witness ==
    /\ pc = "done"
    /\ count >= 1
    /\ \E i \in 1..Len(tree) : ~HasBulkImport(fs0[i]) /\ Ops({"read"}, i) # {} /\ fs0[i] # <<>>

\* ------------------------------------------------------------------------
\* C5
\* ------------------------------------------------------------------------
\* C5: no run ends in the error of unpacking a symbol-list entry that holds
\* ` as `, whether it holds it once or more than once.
C5_AliasSplitNeverRaises == err # "ValueError"

\* ------------------------------------------------------------------------
\* C6
\* ------------------------------------------------------------------------
\* C6: when every entry of the symbol list of every matched statement is
\* empty after trimming, the text is left as it was read.
C6_DegenerateKept ==
    ( /\ pc = "loop"
      /\ todo = <<>>
      /\ \A k \in 1..Len(matches) : Entries(matches[k].group1) = <<>> )
    => new_content = content

\* ------------------------------------------------------------------------
\* C7
\* ------------------------------------------------------------------------
\* an import line that binds b to the module of name o in the package
LinesOf(b, o) ==
    { <<"i", "m", "p", "o", "r", "t", " ">> \o b \o <<" ", "f", "r", "o", "m", " ", "'">>
          \o Package \o slash \o o \o <<".", "m", "j", "s", "'", ";">> : slash \in {<<>>, <<"/">>} }

\* the lines that import entry e: under its own name, or, for `o as b`, the
\* module of o under the name b; neither name is empty
GoodLines(e) ==
    IF Find(e, AsSep, 0) < 0
    THEN IF e = <<>> THEN {} ELSE LinesOf(e, e)
    ELSE UNION { LinesOf(Slice(e, Len(e) - i, Len(e)), Slice(e, 0, j)) :
                   <<i, j>> \in { x \in (1..Len(e)) \X (1..Len(e)) :
                                    /\ x[1] + x[2] < Len(e)
                                    /\ Slice(e, x[2], x[2] + 1) = <<" ">>
                                    /\ Slice(e, Len(e) - x[1] - 1, Len(e) - x[1]) = <<" ">>
                                    /\ Strip(Slice(e, x[2], Len(e) - x[1])) = <<"a", "s">> } }

RECURSIVE IsBlockOf(_, _)
\* block is one good line per entry of es, in order, newline between two
IsBlockOf(block, es) ==
    IF es = <<>> THEN block = <<>>
    ELSE \E ln \in GoodLines(Head(es)) :
             /\ HasAt(block, 0, ln)
             /\ IF Len(es) = 1 THEN Len(block) = Len(ln)
                ELSE /\ HasAt(block, Len(ln), <<"\n">>)
                     /\ IsBlockOf(Slice(block, Len(ln) + 1, Len(block)), Tail(es))

JustRead == pc \in {"walk", "loop"} /\ log # <<>> /\ log[Len(log)].op = "read"

\* every statement text with the list and the style it was written from
Styled == {[text |-> Stmt(l, st), list |-> l, style |-> st] : l \in Lists, st \in Styles}

\* C8: a bulk import of a symbol list, in any quote style, with or without
\* the semicolon, on one line or several, is matched over its whole length,
\* its entries are those of the list, and its replacement block is the one
\* of the same list written on one line with single quotes and a semicolon.
C8_StyleTolerance ==
    JustRead =>
        \A r \in Styled :
            content = r.text =>
                /\ Len(matches) = 1
                /\ matches[1].start = 0
                /\ matches[1].end = Len(content)
                /\ StripAll(Split(matches[1].group1, <<",">>)) =
                       [k \in 1..Len(r.list) |-> PieceText(r.list[k])]
                /\ (pc = "loop" /\ todo = <<>>) =>
                       new_content = Block(FindAll(Stmt(r.list, PlainStyle))[1])

C8_Witness ==
    /\ pc = "loop"
    /\ todo = <<>>
    /\ content = Stmt(<<"plain", "alias">>, [quote |-> "\"", semi |-> FALSE, multi |-> TRUE])

\* ------------------------------------------------------------------------
\* C9
\* ------------------------------------------------------------------------
\* the name of file i ends in .ts or .tsx
IsSource(i) ==
    LET n == tree[i]
    IN  \/ Len(n) >= 3 /\ SubSeq(n, Len(n) - 2, Len(n)) = <<".", "t", "s">>
        \/ Len(n) >= 4 /\ SubSeq(n, Len(n) - 3, Len(n)) = <<".", "t", "s", "x">>

Reads(i) == Ops({"read", "readfail"}, i)

Writes(i) == Ops({"write", "writefail"}, i)

AllWrites == {k \in 1..Len(log) : log[k].op = "write"}

\* C9: in a run, a .ts or .tsx file is read once and written at most once,
\* after its read and only with a text that differs from the one read; other
\* files are neither read nor written; the Total line comes last, after
\* one Refactored line per file overwritten, and carries their number.
C9_DriverLifecycle ==
    /\ \A i \in 1..Len(tree) :
           /\ Cardinality(Reads(i)) <= 1
           /\ Cardinality(Writes(i)) <= 1
           /\ \A w \in Writes(i) : \E r \in Ops({"read"}, i) : r < w
           /\ Written(i) => fs[i] # fs0[i]
           /\ Writes(i) = {} => fs[i] = fs0[i]
           /\ ~IsSource(i) => Reads(i) = {} /\ Writes(i) = {}
           /\ (pc = "done" /\ IsSource(i)) => Cardinality(Ops({"read"}, i)) = 1
           /\ pc = "done" => (Written(i) <=> Refactored(i))
    /\ pc = "done" =>
           /\ out # <<>>
           /\ out[Len(out)] = [kind |-> "Total", arg |-> Cardinality(AllWrites)]
           /\ Len(out) - 1 = Cardinality(AllWrites)
           /\ \A k \in 1..(Len(out) - 1) : out[k].kind = "Refactored"
    /\ pc # "done" => \A k \in 1..Len(out) : out[k].kind = "Refactored"

C9_Witness ==
    /\ pc = "done"
    /\ count >= 1
    /\ count < Cardinality({i \in 1..Len(tree) : IsSource(i)})
    /\ \E i \in 1..Len(tree) : ~IsSource(i)

\* ------------------------------------------------------------------------
\* C10
\* ------------------------------------------------------------------------
Failures == {k \in 1..Len(log) : log[k].op \in {"readfail", "writefail"}}

\* C10: once a read or a write has failed, the run is over: the failure is
\* the last file operation, no file after the failing one is read or
\* written, the files overwritten before it hold their rewritten text, and
\* no Total line is printed.
C10_FailFast ==
    Failures # {} =>
        LET f == log[Len(log)].path
        IN  /\ Failures = {Len(log)}
            /\ pc = "crashed"
            /\ err = "OSError"
            /\ \A k \in 1..Len(out) : out[k].kind # "Total"
            /\ \A j \in (f + 1)..Len(tree) : Reads(j) = {} /\ Writes(j) = {} /\ fs[j] = fs0[j]
            /\ \A j \in 1..(f - 1) :
                   Written(j) =>
                       /\ fs[j] # fs0[j]
                       /\ fs[j] = ForwardFrom(fs0[j], FindAll(fs0[j]), 1, 0)

C10_Witness ==
    /\ Failures # {}
    /\ LET f == log[Len(log)].path
       IN  /\ \E j \in 1..(f - 1) : Written(j)
           /\ \E j \in (f + 1)..Len(tree) : IsSource(j)

====
